---- MODULE Spec2Model ----
\* Model of src/Entrainment.py: find_cd_from_rep and run_all_calculations.
\* Real numbers are IEEE doubles. A finite non-zero double is abstracted by
\* its sign s and a range [lo, hi] of its binary exponent in eighths:
\* 2^(lo/8) <= |x| <= 2^(hi/8). The other values are zero, the two
\* infinities and NaN. An arithmetic operation yields the SET of values its
\* result can have (overflow to an infinity and underflow to zero included),
\* or the Python exception it raises: ZeroDivisionError ("ZDE"), ValueError
\* ("VE") or OverflowError ("OFE").
EXTENDS Integers, FiniteSets, Sequences, TLC

FinV(s, a, b) == [k |-> "fin", s |-> s, lo |-> a, hi |-> b]
ZeroV == [k |-> "zero", s |-> 0, lo |-> 0, hi |-> 0]
NaNV == [k |-> "nan", s |-> 0, lo |-> 0, hi |-> 0]
InfV(s) == [k |-> "inf", s |-> s, lo |-> 0, hi |-> 0]
ExcV(e) == [k |-> e, s |-> 0, lo |-> 0, hi |-> 0]
NoneV == [k |-> "none", s |-> 0, lo |-> 0, hi |-> 0]

IsExc(x) == x.k \in {"ZDE", "VE", "OFE"}
\* x <= 0 (False for NaN)
LeZero(x) == x.k = "zero" \/ (x.k \in {"fin", "inf"} /\ x.s = -1)
\* x > 0
GtZero(x) == x.k \in {"fin", "inf"} /\ x.s = 1
NegV(x) == IF x.k \in {"fin", "inf"} THEN [x EXCEPT !.s = -x.s] ELSE x
Max(a, b) == IF a > b THEN a ELSE b
Min(a, b) == IF a < b THEN a ELSE b
Abs(a) == IF a < 0 THEN -a ELSE a
CeilDiv(a, b) == -((-a) \div b)

\* The double of sign s nearest to an exact value v with
\* 2^(a/8) <= |v| <= 2^(b/8) (a, b already include one eighth of slack for
\* the rounding error of a normal result). A subnormal result (below
\* 2^-1022) can be off by half of 2^-1074, at most a factor 2 either way.
\* |v| >= 2^1024 gives an infinity, |v| <= 2^-1075 gives 0.
FromExp(s, a, b) ==
  LET a2 == IF a < -8176 THEN a - 8 ELSE a
      b2 == IF b < -8176 THEN b + 8 ELSE b
  IN (IF a < 8192 /\ b > -8600 THEN {FinV(s, Max(a2, -8592), Min(b2, 8192))} ELSE {})
     \cup (IF b >= 8192 THEN {InfV(s)} ELSE {})
     \cup (IF a <= -8600 THEN {ZeroV} ELSE {})

\* float * float
MulV(a, b) ==
  IF a.k = "nan" \/ b.k = "nan" THEN {NaNV}
  ELSE IF a.k = "inf" \/ b.k = "inf"
       THEN (IF a.k = "zero" \/ b.k = "zero" THEN {NaNV} ELSE {InfV(a.s * b.s)})
  ELSE IF a.k = "zero" \/ b.k = "zero" THEN {ZeroV}
  ELSE FromExp(a.s * b.s, a.lo + b.lo - 1, a.hi + b.hi + 1)

\* float / float (Python raises ZeroDivisionError on a zero divisor)
DivV(a, b) ==
  IF b.k = "zero" THEN {ExcV("ZDE")}
  ELSE IF a.k = "nan" \/ b.k = "nan" THEN {NaNV}
  ELSE IF a.k = "inf" THEN (IF b.k = "inf" THEN {NaNV} ELSE {InfV(a.s * b.s)})
  ELSE IF b.k = "inf" THEN {ZeroV}
  ELSE IF a.k = "zero" THEN {ZeroV}
  ELSE FromExp(a.s * b.s, a.lo - b.hi - 1, a.hi - b.lo + 1)

\* 8 log2(1 + 2^(-g/8)) rounded up and down, 8 log2(1 - 2^(-g/8)) rounded
\* down, for the gap g between two exponents
AddUpTab == <<8, 8, 8, 7, 7, 6, 6, 6, 5, 5, 5, 4, 4, 4, 4, 3, 3, 3, 3, 3, 2, 2, 2, 2, 2, 2, 2, 2>>
AddDnTab == <<8, 7, 7, 6, 6, 5, 5, 5, 4, 4, 4, 3, 3, 3, 3, 2, 2, 2, 2, 2, 1, 1, 1, 1, 1, 1, 1, 1>>
SubDnTab == <<-29, -22, -18, -15, -13, -11, -10, -8, -8, -7, -6, -6, -5, -5, -4, -4, -4, -3, -3, -3, -3, -2, -2, -2, -2, -2, -2, -2>>
AddUp(g) == IF g < 28 THEN AddUpTab[g + 1] ELSE 1
AddDn(g) == IF g < 28 THEN AddDnTab[g + 1] ELSE 0
SubDn(g) == IF g <= 28 THEN SubDnTab[g] ELSE -1

\* float + float: |x| + |y| for equal signs; for opposite signs with
\* |y| < 2^(lo(x)/8) the difference lies between 2^(lo(x)/8) - |y| and |x|
AddV(a, b) ==
  IF a.k = "nan" \/ b.k = "nan" THEN {NaNV}
  ELSE IF a.k = "inf" /\ b.k = "inf" THEN (IF a.s = b.s THEN {a} ELSE {NaNV})
  ELSE IF a.k = "inf" THEN {a}
  ELSE IF b.k = "inf" THEN {b}
  ELSE IF a.k = "zero" THEN {b}
  ELSE IF b.k = "zero" THEN {a}
  ELSE IF a.s = b.s
       THEN FromExp(a.s, Max(a.lo, b.lo) + AddDn(Abs(a.lo - b.lo)) - 1,
                    Max(a.hi, b.hi) + AddUp(Abs(a.hi - b.hi)) + 1)
  ELSE IF b.hi < a.lo THEN FromExp(a.s, a.lo + SubDn(a.lo - b.hi) - 1, a.hi)
  ELSE IF a.hi < b.lo THEN FromExp(b.s, b.lo + SubDn(b.lo - a.hi) - 1, b.hi)
  ELSE FromExp(1, -8600, Max(a.hi, b.hi)) \cup FromExp(-1, -8600, Max(a.hi, b.hi)) \cup {ZeroV}

SubV(a, b) == AddV(a, NegV(b))

\* math.sqrt
SqrtV(a) ==
  IF LeZero(a) /\ a.k # "zero" THEN {ExcV("VE")}
  ELSE IF a.k = "fin" THEN FromExp(1, a.lo \div 2 - 1, CeilDiv(a.hi, 2) + 1)
  ELSE {a}

\* Exponents n / d of the program's powers
E0 == [n |-> 0, d |-> 1]
E1 == [n |-> 1, d |-> 1]
E2 == [n |-> 2, d |-> 1]
E3 == [n |-> 3, d |-> 1]
E04 == [n |-> 2, d |-> 5]
E05 == [n |-> 1, d |-> 2]
E06 == [n |-> 3, d |-> 5]
E0687 == [n |-> 687, d |-> 1000]
E0714 == [n |-> 5, d |-> 7]
E116 == [n |-> 29, d |-> 25]
E16 == [n |-> 8, d |-> 5]

\* x ** e and math.pow(x, e), x > 0 finite: an overflowing result raises
\* OverflowError, an underflowing one is 0
PosPow(a, e) ==
  IF e.n = e.d THEN {a}
  ELSE {IF r.k = "inf" THEN ExcV("OFE") ELSE r :
          r \in FromExp(1, (a.lo * e.n) \div e.d - 1, CeilDiv(a.hi * e.n, e.d) + 1)}
\* x ** e and math.pow(x, e); a negative base needs an integer exponent
PowV(a, e) ==
  IF e.n = 0 THEN {FinV(1, 0, 0)}
  ELSE IF a.k = "nan" THEN {NaNV}
  ELSE IF a.k = "zero" THEN {ZeroV}
  ELSE IF a.k = "inf" THEN (IF a.s = -1 /\ e.d = 1 /\ e.n % 2 = 1 THEN {a} ELSE {InfV(1)})
  ELSE IF a.s = 1 THEN PosPow(a, e)
  ELSE IF e.d # 1 THEN {ExcV("VE")}
  ELSE {IF e.n % 2 = 1 THEN NegV(r) ELSE r : r \in PosPow(NegV(a), e)}

RECURSIVE ILog2Floor(_)
ILog2Floor(n) == IF n < 2 THEN 0 ELSE 1 + ILog2Floor(n \div 2)
\* 10000 * 2^(j/8) for j = 0..8, rounded up and down
TUp == <<10000, 10906, 11893, 12969, 14143, 15423, 16818, 18341, 20000>>
TDn == <<10000, 10905, 11892, 12968, 14142, 15422, 16817, 18340, 20000>>
\* floor(8 log2 n) and ceil(8 log2 n) for an integer n >= 1
L8Floor(n) ==
  LET q == ILog2Floor(n) IN
  8 * q + CHOOSE j \in 0..7 : n * 10000 >= 2^q * TUp[j + 1]
                              /\ \A j2 \in (j + 1)..7 : n * 10000 < 2^q * TUp[j2 + 1]
L8Ceil(n) ==
  LET q == ILog2Floor(n) IN
  8 * q + CHOOSE j \in 0..8 : n * 10000 <= 2^q * TDn[j + 1]
                              /\ \A j2 \in 0..(j - 1) : n * 10000 > 2^q * TDn[j2 + 1]

\* math.log10 of x with 2^(lo/8) <= x <= 2^(hi/8): |log10 x| = |log2 x|
\* log10(2), with 8 log2(log10(2) / 8) = -37.86; a log10 close to 0 (x
\* close to 1) is at least 2^-54 in magnitude.
Log10V(a) ==
  IF a.k = "nan" THEN {NaNV}
  ELSE IF a.k = "inf" /\ a.s = 1 THEN {a}
  ELSE IF ~GtZero(a) THEN {ExcV("VE")}
  ELSE IF a.lo >= 1 THEN {FinV(1, L8Floor(a.lo) - 39, L8Ceil(a.hi) - 36)}
  ELSE IF a.hi <= -1 THEN {FinV(-1, L8Floor(-a.hi) - 39, L8Ceil(-a.lo) - 36)}
  ELSE {ZeroV}
       \cup (IF a.hi >= 1 THEN {FinV(1, -434, L8Ceil(a.hi) - 36)} ELSE {})
       \cup (IF a.lo <= -1 THEN {FinV(-1, -434, L8Ceil(-a.lo) - 36)} ELSE {})

\* Lifting to sets of outcomes; an exception of the left operand is raised
\* before the right operand is looked at (Python evaluates left to right).
LMul(A, B) == UNION {IF IsExc(a) THEN {a} ELSE IF IsExc(b) THEN {b} ELSE MulV(a, b) : a \in A, b \in B}
LDiv(A, B) == UNION {IF IsExc(a) THEN {a} ELSE IF IsExc(b) THEN {b} ELSE DivV(a, b) : a \in A, b \in B}
LAdd(A, B) == UNION {IF IsExc(a) THEN {a} ELSE IF IsExc(b) THEN {b} ELSE AddV(a, b) : a \in A, b \in B}
LSub(A, B) == UNION {IF IsExc(a) THEN {a} ELSE IF IsExc(b) THEN {b} ELSE SubV(a, b) : a \in A, b \in B}
LSqrt(A) == UNION {IF IsExc(a) THEN {a} ELSE SqrtV(a) : a \in A}
LPow(A, e) == UNION {IF IsExc(a) THEN {a} ELSE PowV(a, e) : a \in A}
LLog10(A) == UNION {IF IsExc(a) THEN {a} ELSE Log10V(a) : a \in A}

\* Literals of the source (2^(lo/8) <= value <= 2^(hi/8))
Lit1 == {FinV(1, 0, 0)}
Lit3 == {FinV(1, 12, 13)}
Lit4 == {FinV(1, 16, 16)}
Lit24 == {FinV(1, 36, 37)}
Lit0_15 == {FinV(1, -22, -21)}
Lit0_42 == {FinV(1, -11, -10)}
Lit42500 == {FinV(1, 123, 124)}
Lit0_0091 == {FinV(1, -55, -54)}
Lit7_3 == {FinV(1, 22, 23)}
Lit44_2 == {FinV(1, 43, 44)}
Lit263 == {FinV(1, 64, 65)}
Lit439 == {FinV(1, 70, 71)}
LitPi == {FinV(1, 13, 14)}
\* a2 = 9e-8
LitA2 == {FinV(1, -188, -187)}
\* cd_guess = 0.4
CdSeed == FinV(1, -11, -10)

\* abs(x) < tolerance, tolerance = 1e-6 (2^(-160/8) < 1e-6 < 2^(-159/8))
AbsLtTol(x) ==
  IF x.k = "zero" THEN {TRUE}
  ELSE IF x.k # "fin" THEN {FALSE}
  ELSE (IF x.lo <= -160 THEN {TRUE} ELSE {}) \cup (IF x.hi >= -159 THEN {FALSE} ELSE {})

\* find_cd_from_rep with "if re_p < 0" in place of "if re_p <= 0"
FindCdSetLt(re) ==
  IF LeZero(re) /\ re.k # "zero" THEN {InfV(1)}
  ELSE LAdd(LMul(LDiv(Lit24, {re}), LAdd(Lit1, LMul(Lit0_15, LPow({re}, E0687)))),
            LDiv(Lit0_42, LAdd(Lit1, LDiv(Lit42500, LPow({re}, E116)))))
\* find_cd_from_rep returning 0.0 instead of inf for a non-positive Re_p
FindCdSetZero(re) ==
  IF LeZero(re) THEN {ZeroV}
  ELSE LAdd(LMul(LDiv(Lit24, {re}), LAdd(Lit1, LMul(Lit0_15, LPow({re}, E0687)))),
            LDiv(Lit0_42, LAdd(Lit1, LDiv(Lit42500, LPow({re}, E116)))))
\* find_cd_from_rep(re_p): the set of its possible results
FindCdSet(re) ==
  IF LeZero(re) THEN {InfV(1)}
  ELSE LAdd(LMul(LDiv(Lit24, {re}), LAdd(Lit1, LMul(Lit0_15, LPow({re}, E0687)))),
            LDiv(Lit0_42, LAdd(Lit1, LDiv(Lit42500, LPow({re}, E116)))))

\* abs(cd_new - cd_guess) < tolerance
LtTolSet(cn, cg) == UNION {AbsLtTol(x) : x \in SubV(cn, cg)}

\* ---------------------------------------------------------------------
\* run_all_calculations
\* ---------------------------------------------------------------------
max_iterations_off_by_one == 501
max_iterations == 500

\* The hardcoded inputs: g = 9.81, rho_l = 800, rho_g = 70, mu_g = 1e-5,
\* mu_l = 1e-4, D = 0.6, U_G = 10, sigma = 0.0115, W_L = 0.5
Ref == [g |-> FinV(1, 26, 27), rho_l |-> FinV(1, 77, 78), rho_g |-> FinV(1, 49, 50),
        mu_g |-> FinV(1, -133, -132), mu_l |-> FinV(1, -107, -106),
        d_capital |-> FinV(1, -6, -5), ug |-> FinV(1, 26, 27),
        sigma |-> FinV(1, -52, -51), w_l |-> FinV(1, -8, -8)]
\* Other values the commented float(input(...)) calls can read, one
\* parameter changed at a time: zero, the negated default, W_L = 0.01,
\* mu_G = 1e-300 and mu_G = 1e-320
Deviations ==
  {<<"sigma", ZeroV>>, <<"rho_g", NegV(Ref.rho_g)>>, <<"ug", ZeroV>>,
   <<"d_capital", NegV(Ref.d_capital)>>, <<"d_capital", ZeroV>>,
   <<"mu_g", ZeroV>>, <<"mu_g", NegV(Ref.mu_g)>>,
   <<"rho_l", NegV(Ref.rho_l)>>, <<"rho_l", ZeroV>>, <<"g", ZeroV>>,
   <<"mu_l", ZeroV>>, <<"mu_l", NegV(Ref.mu_l)>>, <<"w_l", ZeroV>>,
   <<"w_l", FinV(1, -54, -53)>>, <<"mu_g", FinV(1, -7973, -7972)>>,
   <<"mu_g", FinV(1, -8505, -8504)>>}
Inputs == {Ref} \cup {[Ref EXCEPT ![dv[1]] = dv[2]] : dv \in Deviations}

\* d = math.pow((d_capital * sigma * 0.0091) / (rho_g * ug**2), 0.5)
DSet(q) == LPow(LDiv(LMul(LMul({q.d_capital}, {q.sigma}), Lit0_0091),
                     LMul({q.rho_g}, LPow({q.ug}, E2))), E05)
\* u_t = math.sqrt((4 * d * g * (rho_l)) / (3 * cd_guess * rho_g))
UtSet(q, dv, cg) == LSqrt(LDiv(LMul(LMul(LMul(Lit4, {dv}), {q.g}), {q.rho_l}),
                               LMul(LMul(Lit3, {cg}), {q.rho_g})))
\* re_p_new = (d * u_t * rho_g) / mu_g
ReSet(q, dv, ut) == LDiv(LMul(LMul({dv}, {ut}), {q.rho_g}), {q.mu_g})

VARIABLES p, pc, d, cd_guess, i, re_p_new, cd_new, small, cd_ret, status,
          final_re_p, final_cd, m_value, em, e_value, printed, raised, cause,
          reachedLoop, reachedTerms, rre, rm

loopVars == <<d, cd_guess, i, re_p_new, cd_new, small, cd_ret>>
downVars == <<final_re_p, final_cd, m_value, em, e_value, reachedTerms>>
progVars == <<p, pc, loopVars, status, downVars, printed, raised, cause, reachedLoop>>
vars == <<progVars, rre, rm>>

ProgInit ==
  /\ p \in Inputs
  /\ pc = "start"
  /\ d = NoneV /\ cd_guess = NoneV /\ i = 0
  /\ re_p_new = NoneV /\ cd_new = NoneV /\ small = FALSE /\ cd_ret = NoneV
  /\ status = "None"
  /\ final_re_p = NoneV /\ final_cd = NoneV /\ m_value = "None"
  /\ em = NoneV /\ e_value = NoneV
  /\ printed = {} /\ raised = "none" /\ cause = "none"
  /\ reachedLoop = FALSE /\ reachedTerms = FALSE

Init == ProgInit /\ rre = 0 /\ rm = -1

\* raise inside the try block: ValueError is caught by the first handler
\* ("Invalid input: ..."), every other exception by the second one
\* ("An unexpected error occurred: ..."); c records the line of the explicit
\* raise ValueError(...) that fired ("line44", "line94", ...) or "arith" for
\* an arithmetic failure.
Raise(kind, c) ==
  /\ pc' = "done"
  /\ raised' = kind
  /\ cause' = c
  /\ printed' = printed \cup {IF kind = "VE" THEN "invalid" ELSE "unexpected"}
  /\ status' = IF status = "Iterating" THEN "Raised" ELSE status

\* Step 1: validation of sigma, rho_g, U_G and the drop diameter
Step1 ==
  /\ pc = "start"
  /\ IF LeZero(p.sigma) \/ LeZero(p.rho_g) \/ LeZero(p.ug)
     THEN Raise("VE", "line44") /\ UNCHANGED <<p, loopVars, downVars, reachedLoop>>
     ELSE \E dv \in DSet(p) :
            IF IsExc(dv)
            THEN Raise(dv.k, "arith") /\ UNCHANGED <<p, loopVars, downVars, reachedLoop>>
            ELSE /\ d' = dv
                 /\ cd_guess' = CdSeed
                 /\ i' = 0
                 /\ pc' = "loop"
                 /\ status' = "Iterating"
                 /\ reachedLoop' = TRUE
                 /\ UNCHANGED <<p, re_p_new, cd_new, small, cd_ret, downVars,
                                printed, raised, cause>>

\* One iteration of: for i in range(max_iterations)
LoopStep ==
  /\ pc = "loop"
  /\ i < max_iterations
  /\ IF LeZero(cd_guess)
     THEN /\ pc' = "done"
          /\ status' = "Diverged"
          /\ printed' = printed \cup {"divabort"}
          /\ UNCHANGED <<p, loopVars, downVars, raised, cause, reachedLoop>>
     ELSE \E ut \in UtSet(p, d, cd_guess) :
          IF IsExc(ut)
          THEN Raise(ut.k, "arith") /\ UNCHANGED <<p, loopVars, downVars, reachedLoop>>
          ELSE \E re \in ReSet(p, d, ut) :
               IF IsExc(re)
               THEN Raise(re.k, "arith") /\ UNCHANGED <<p, loopVars, downVars, reachedLoop>>
               ELSE \E cn \in FindCdSet(re) :
                    /\ re_p_new' = re
                    /\ cd_ret' = cn
                    /\ IF IsExc(cn)
                       THEN Raise(cn.k, "arith")
                            /\ UNCHANGED <<p, d, cd_guess, i, cd_new, small,
                                           downVars, reachedLoop>>
                       ELSE \E sm \in LtTolSet(cn, cd_guess) :
                            /\ cd_new' = cn
                            /\ small' = sm
                            /\ i' = i + 1
                            /\ IF sm
                               THEN /\ status' = "Converged"
                                    /\ printed' = printed \cup {"converged"}
                                    /\ final_re_p' = re
                                    /\ final_cd' = cn
                                    /\ pc' = "regime"
                                    /\ UNCHANGED <<cd_guess>>
                               ELSE /\ cd_guess' = cn
                                    /\ UNCHANGED <<pc, status, printed, final_re_p, final_cd>>
                            /\ UNCHANGED <<p, d, m_value, em, e_value, reachedTerms,
                                           raised, cause, reachedLoop>>

\* the else branch without its warning
LoopElseSilent ==
  /\ pc = "loop"
  /\ i = max_iterations
  /\ status' = "BudgetExhausted"
  /\ printed' = printed
  /\ final_re_p' = re_p_new
  /\ final_cd' = cd_new
  /\ pc' = "regime"
  /\ UNCHANGED <<p, loopVars, m_value, em, e_value, reachedTerms, raised, cause, reachedLoop>>

\* The for loop's else branch: the budget is used up without convergence
LoopElse ==
  /\ pc = "loop"
  /\ i = max_iterations
  /\ status' = "BudgetExhausted"
  /\ printed' = printed \cup {"warning"}
  /\ final_re_p' = re_p_new
  /\ final_cd' = cd_new
  /\ pc' = "regime"
  /\ UNCHANGED <<p, loopVars, m_value, em, e_value, reachedTerms, raised, cause, reachedLoop>>

\* m from the final Re_p: if re < 1.92: 1 elif re < 500: 0.6 else 0
\* (2^(7/8) < 1.92 < 2^(8/8), 2^(71/8) < 500 < 2^(72/8); a NaN compares
\* False both times)
RegimeAbs(re) ==
  IF LeZero(re) THEN {"1"}
  ELSE IF re.k # "fin" THEN {"0"}
  ELSE (IF re.lo <= 7 THEN {"1"} ELSE {})
       \cup (IF re.hi >= 8 /\ re.lo <= 71 THEN {"0.6"} ELSE {})
       \cup (IF re.hi >= 72 THEN {"0"} ELSE {})

Regime ==
  /\ pc = "regime"
  /\ \E m \in RegimeAbs(final_re_p) : m_value' = m
  /\ pc' = "step3"
  /\ UNCHANGED <<p, loopVars, status, final_re_p, final_cd, em, e_value, reachedTerms,
                 printed, raised, cause, reachedLoop>>

\* omega = (mu_l / mu_g) * math.sqrt(rho_g / rho_l)
OmegaSet(q) == LMul(LDiv({q.mu_l}, {q.mu_g}), LSqrt(LDiv({q.rho_g}, {q.rho_l})))
\* relfc = 7.3 * L ** 3 + 44.2 * L ** 2 - 263 * L + 439, L = math.log10(omega)
RelfcSet(om) ==
  LET L == LLog10({om}) IN
  LAdd(LSub(LAdd(LMul(Lit7_3, LPow(L, E3)), LMul(Lit44_2, LPow(L, E2))), LMul(Lit263, L)), Lit439)
\* gamma_c = relfc * mu_l / 4
GammaCSet(q, rl) == LDiv(LMul({rl}, {q.mu_l}), Lit4)
\* em = 1 - (math.pi * d_capital * gamma_c / w_l)
EmSet(q, gc) == LSub(Lit1, LDiv(LMul(LMul(LitPi, {q.d_capital}), {gc}), {q.w_l}))

\* Step 3: omega, Re_LFC and E_M
Step3 ==
  /\ pc = "step3"
  /\ IF p.mu_g.k = "zero" \/ p.rho_l.k = "zero"
     THEN Raise("VE", "line94") /\ UNCHANGED <<p, loopVars, downVars, reachedLoop>>
     ELSE \E om \in OmegaSet(p) :
          IF IsExc(om)
          THEN Raise(om.k, "arith") /\ UNCHANGED <<p, loopVars, downVars, reachedLoop>>
          ELSE IF LeZero(om)
          THEN Raise("VE", "line99") /\ UNCHANGED <<p, loopVars, downVars, reachedLoop>>
          ELSE \E rl \in RelfcSet(om) :
               IF IsExc(rl)
               THEN Raise(rl.k, "arith") /\ UNCHANGED <<p, loopVars, downVars, reachedLoop>>
               ELSE \E gc \in GammaCSet(p, rl) :
                    IF IsExc(gc)
                    THEN Raise(gc.k, "arith") /\ UNCHANGED <<p, loopVars, downVars, reachedLoop>>
                    ELSE IF p.w_l.k = "zero"
                    THEN Raise("VE", "line104") /\ UNCHANGED <<p, loopVars, downVars, reachedLoop>>
                    ELSE \E e \in EmSet(p, gc) :
                         IF IsExc(e)
                         THEN Raise(e.k, "arith") /\ UNCHANGED <<p, loopVars, downVars, reachedLoop>>
                         ELSE /\ em' = e
                              /\ pc' = "step4"
                              /\ UNCHANGED <<p, loopVars, status, final_re_p, final_cd, m_value,
                                             e_value, reachedTerms, printed, raised, cause,
                                             reachedLoop>>

\* exponents 1 - m, m, 1 + m and 1 / (2 - m) for m in {1, 0.6, 0}
OneMinusM(m) == CASE m = "1" -> E0 [] m = "0.6" -> E04 [] OTHER -> E1
MExp(m) == CASE m = "1" -> E1 [] m = "0.6" -> E06 [] OTHER -> E0
OnePlusM(m) == CASE m = "1" -> E2 [] m = "0.6" -> E16 [] OTHER -> E1
Exponent2(m) == CASE m = "1" -> E1 [] m = "0.6" -> E0714 [] OTHER -> E05

\* term1 = math.sqrt(d_capital * math.pow(ug, 3) * rho_l * rho_g) / sigma
Term1Set(q) == LDiv(LSqrt(LMul(LMul(LMul({q.d_capital}, LPow({q.ug}, E3)), {q.rho_l}), {q.rho_g})),
                    {q.sigma})
\* numerator_term2 = math.pow(rho_g, 1 - m_value) * math.pow(mu_g, m_value)
Num2Set(q, m) == LMul(LPow({q.rho_g}, OneMinusM(m)), LPow({q.mu_g}, MExp(m)))
\* denominator_term2 = math.pow(d, 1 + m_value) * g * (rho_l - rho_g)
Den2Set(q, dv, m) == LMul(LMul(LPow({dv}, OnePlusM(m)), {q.g}), LSub({q.rho_l}, {q.rho_g}))
\* term2 = math.pow(numerator_term2 / denominator_term2, exponent_term2)
Term2Set(n2, d2, m) == LPow(LDiv({n2}, {d2}), Exponent2(m))
\* rhs = a2 * term1 * term2
RhsSet(t1, t2) == LMul(LMul(LitA2, {t1}), {t2})
\* e_value = em * (rhs / (1 + rhs))
ESet(e, r, opr) == LMul({e}, LDiv({r}, {opr}))

\* Step 4: term1, term2 and E
Step4 ==
  /\ pc = "step4"
  /\ reachedTerms' = TRUE
  /\ \E t1 \in Term1Set(p) :
     IF IsExc(t1)
     THEN Raise(t1.k, "arith") /\ UNCHANGED <<p, loopVars, final_re_p, final_cd, m_value, em, e_value, reachedLoop>>
     ELSE \E n2 \in Num2Set(p, m_value) :
     IF IsExc(n2)
     THEN Raise(n2.k, "arith") /\ UNCHANGED <<p, loopVars, final_re_p, final_cd, m_value, em, e_value, reachedLoop>>
     ELSE \E d2 \in Den2Set(p, d, m_value) :
     IF IsExc(d2)
     THEN Raise(d2.k, "arith") /\ UNCHANGED <<p, loopVars, final_re_p, final_cd, m_value, em, e_value, reachedLoop>>
     ELSE IF m_value = "2"
     THEN /\ pc' = "done"
          /\ printed' = printed \cup {"m2abort"}
          /\ UNCHANGED <<p, loopVars, status, final_re_p, final_cd, m_value, em, e_value,
                         raised, cause, reachedLoop>>
     ELSE IF LeZero(d2)
     THEN Raise("VE", "line126") /\ UNCHANGED <<p, loopVars, final_re_p, final_cd, m_value, em, e_value, reachedLoop>>
     ELSE \E t2 \in Term2Set(n2, d2, m_value) :
     IF IsExc(t2)
     THEN Raise(t2.k, "arith") /\ UNCHANGED <<p, loopVars, final_re_p, final_cd, m_value, em, e_value, reachedLoop>>
     ELSE \E r \in RhsSet(t1, t2) :
     \E opr \in AddV(FinV(1, 0, 0), r) :
     IF opr.k = "zero"
     THEN Raise("VE", "line132") /\ UNCHANGED <<p, loopVars, final_re_p, final_cd, m_value, em, e_value, reachedLoop>>
     ELSE \E ev \in ESet(em, r, opr) :
          /\ e_value' = ev
          /\ pc' = "done"
          /\ printed' = printed \cup {"E"}
          /\ UNCHANGED <<p, loopVars, status, final_re_p, final_cd, m_value, em,
                         raised, cause, reachedLoop>>

Next == (Step1 \/ LoopStep \/ LoopElse \/ Regime \/ Step3 \/ Step4) /\ UNCHANGED <<rre, rm>>
Spec == Init /\ [][Next]_vars

\* ---------------------------------------------------------------------
\* The regime exponent as a function of the final Re_p, on exact values:
\* rre is Re_p in units of 1e-6, rm is m in units of 0.1.
\* ---------------------------------------------------------------------
RegimeOfLe(re) == IF re <= 1920000 THEN 10 ELSE IF re < 500000000 THEN 6 ELSE 0
RegimeOf(re) == IF re < 1920000 THEN 10 ELSE IF re < 500000000 THEN 6 ELSE 0

MaxRegimeSample == 30
RegimeInputs == {1919999, 1920000, 499999000, 500000000, -1000000}
                \cup {k * 100000 : k \in 0..MaxRegimeSample}
                \cup {k * 20000000 : k \in 0..MaxRegimeSample}

ComputeRegime ==
  /\ rm = -1
  /\ rm' = RegimeOf(rre)
  /\ UNCHANGED <<progVars, rre>>

RegimeInit == ProgInit /\ p = Ref /\ rre \in RegimeInputs /\ rm = -1
RegimeSpec == RegimeInit /\ [][ComputeRegime]_vars

\* ---------------------------------------------------------------------
\* Properties
\* ---------------------------------------------------------------------
\* C1: no input that one of the program's validation checks rejects reaches
\* the fixed-point iteration. Once the loop has been entered, sigma, rho_G
\* and U_G are positive (line 44), mu_G, rho_L and W_L are non-zero (the
\* checks of lines 94 and 104, which a failure inside the loop can keep
\* from running), and the run never ends in the rejection of line 94
\* (mu_G or rho_L zero), line 99 (omega <= 0) or line 104 (W_L zero).
C1_NoInvalidInputInLoop ==
  reachedLoop =>
    /\ GtZero(p.sigma) /\ GtZero(p.rho_g) /\ GtZero(p.ug)
    /\ p.mu_g.k # "zero" /\ p.rho_l.k # "zero" /\ p.w_l.k # "zero"
    /\ cause \notin {"line94", "line99", "line104"}

\* C2: when the loop uses up its 500 iterations without meeting the
\* tolerance, the program does not fail there: it prints the
\* non-convergence warning (distinct from the converged message) and goes
\* on downstream with the last iterate (Re_p_new, Cd_new).
C2_NonConvergenceSurfaced ==
  [][status # "BudgetExhausted" /\ status' = "BudgetExhausted" =>
       /\ "warning" \in printed'
       /\ "converged" \notin printed'
       /\ final_re_p' = re_p_new /\ final_cd' = cd_new
       /\ pc' = "regime" /\ raised' = "none"]_vars
C2_Witness == status = "BudgetExhausted" /\ "E" \in printed /\ "warning" \in printed

\* C4 (as stated): find_cd_from_rep returns +inf for re_p <= 0 and a
\* positive finite value for re_p > 0.
C4_FindCdOriginal ==
  cd_ret # NoneV =>
    /\ LeZero(re_p_new) => cd_ret = InfV(1)
    /\ GtZero(re_p_new) => (cd_ret.k = "fin" /\ cd_ret.s = 1)
\* C4 (amended): find_cd_from_rep returns +inf without raising for
\* re_p <= 0; for a finite re_p > 0 it returns a positive finite value,
\* except that it raises OverflowError when re_p ** 1.16 overflows
\* (re_p > 2^880 = 2^(7040/8)) and ZeroDivisionError when re_p ** 1.16 underflows to 0
\* (re_p < 2^-920 = 2^(-7360/8)); for re_p = +inf or NaN it returns NaN.
C4_FindCdAmended ==
  cd_ret # NoneV =>
    /\ LeZero(re_p_new) => cd_ret = InfV(1)
    /\ (re_p_new.k = "fin" /\ re_p_new.s = 1) =>
         \/ cd_ret.k = "fin" /\ cd_ret.s = 1
         \/ cd_ret.k = "OFE" /\ re_p_new.hi >= 7040
         \/ cd_ret.k = "ZDE" /\ re_p_new.lo <= -7360
    /\ (re_p_new.k = "nan" \/ re_p_new = InfV(1)) => cd_ret = NaNV
C4_Witness == cd_ret.k = "OFE" /\ GtZero(re_p_new)

\* C5: m is 1 for Re_p < 1.92, 0.6 for 1.92 <= Re_p < 500 and 0 for
\* Re_p >= 500; 1.919999 -> 1, 1.92 -> 0.6, 499.999 -> 0.6, 500 -> 0.
C5_RegimeExponent ==
  rm # -1 =>
    /\ rm = (IF rre < 1920000 THEN 10 ELSE IF rre < 500000000 THEN 6 ELSE 0)
    /\ rre = 1919999 => rm = 10
    /\ rre = 1920000 => rm = 6
    /\ rre = 499999000 => rm = 6
    /\ rre = 500000000 => rm = 0
C5_Witness == rm = 6 /\ rre = 1920000

\* C6: an arithmetic failure (an exception no explicit check raised) is
\* reported as a generic computation failure, never as an input-validation
\* error.
C6_ArithFailureGeneric ==
  cause = "arith" => ("unexpected" \in printed /\ "invalid" \notin printed)

\* E is definitely outside [0, 1]
OutOfUnit(x) ==
  \/ x.k = "nan" \/ x.k = "inf"
  \/ x.k = "fin" /\ (x.s = -1 \/ x.lo >= 1)
\* C7: whenever E is printed it lies within [0, 1] (an out-of-range value
\* is never returned unflagged).
C7_EInRange == "E" \in printed => ~OutOfUnit(e_value)

\* C9 (as stated): once the solver leaves Iterating it is in one of
\* Converged, Diverged or BudgetExhausted.
C9_TerminalStates ==
  (reachedLoop /\ status # "Iterating") =>
    status \in {"Converged", "Diverged", "BudgetExhausted"}
\* C9 (amended): the solver runs at most 500 iterations and leaves
\* Iterating for Converged, Diverged, BudgetExhausted or an exception
\* raised inside an iteration; it converges exactly at the first iteration
\* with |Cd_new - cd_guess| < 1e-6, and every other iteration sets
\* cd_guess := Cd_new.
C9_TerminalStatesAmended ==
  /\ [](i <= 500)
  /\ [][status = "Iterating" /\ status' # "Iterating" =>
          status' \in {"Converged", "Diverged", "BudgetExhausted", "Raised"}]_vars
  /\ [][status = "Iterating" /\ i' = i + 1 =>
          IF small' THEN status' = "Converged"
          ELSE status' = "Iterating" /\ cd_guess' = cd_new']_vars
C9_Witness == status = "Raised" /\ reachedLoop /\ raised \in {"ZDE", "OFE", "VE"}

====
